---------------------------- MODULE Spec2Model ----------------------------
(***************************************************************************)
(* A model of the SOP Creator page (src/pages/SOP_Creator.py).             *)
(*                                                                         *)
(* Python strings are modelled as sequences of one-character strings, so   *)
(* that str.strip, str.replace, re.sub and strptime are computed character *)
(* by character, as the library computes them.                             *)
(*                                                                         *)
(* Four specifications:                                                    *)
(*   Spec        the page: one action per script run the user can trigger  *)
(*   SpecReplace replace_placeholders on bounded texts and field values    *)
(*   SpecStrip   generate_sop's post-processing on bounded completions     *)
(*   SpecDoc     process_document + adjust_font on bounded documents       *)
(***************************************************************************)
EXTENDS Integers, Sequences, FiniteSets, TLC

VARIABLES
    session_state,  \* st.session_state of the one user session
    view,           \* what the last script run rendered and which calls it made
    text,           \* argument of the function under test (SpecReplace, SpecStrip)
    field_values,   \* the dict passed to replace_placeholders / process_document
    doc,            \* the Document handed to process_document (SpecDoc), as loaded
    ret,            \* the function's result (for process_document: the mutated doc)
    pc              \* "start" before the call under test, "done" after it

vars == <<session_state, view, text, field_values, doc, ret, pc>>

-----------------------------------------------------------------------------
(* Bounds of the checked instances.                                        *)

\* texts handed to replace_placeholders are built from at most this many pieces
MaxPieces == 2
\* completions handed to generate_sop are built from at most this many pieces
MaxThinkPieces == 4
\* at most this many keys of the field dict carry a non-empty value
MaxFilled == 2
\* a generated paragraph has at most this many runs
MaxRuns == 2

-----------------------------------------------------------------------------
(* Python str primitives on character sequences.                           *)

\* the characters str.strip() removes (the ASCII whitespace a text box yields)
IsSpace(c) == c \in {" ", "\t", "\n", "\r"}

RECURSIVE lstrip(_)
lstrip(s) ==
    IF s = <<>> THEN <<>>
    ELSE IF IsSpace(Head(s)) THEN lstrip(Tail(s)) ELSE s

RECURSIVE rstrip(_)
rstrip(s) ==
    IF s = <<>> THEN <<>>
    ELSE IF IsSpace(s[Len(s)]) THEN rstrip(SubSeq(s, 1, Len(s) - 1)) ELSE s

strip(s) == rstrip(lstrip(s))

\* p occurs in s at index i
StartsAt(s, i, p) ==
    /\ i >= 1
    /\ i + Len(p) - 1 <= Len(s)
    /\ \A k \in 1..Len(p) : s[i + k - 1] = p[k]

\* `p in s`
Contains(s, p) == \E i \in 1..(Len(s) + 1) : StartsAt(s, i, p)

RECURSIVE replace_from(_, _, _, _)
replace_from(s, old, new, i) ==
    IF i > Len(s) THEN <<>>
    ELSE IF StartsAt(s, i, old)
         THEN new \o replace_from(s, old, new, i + Len(old))
         ELSE <<s[i]>> \o replace_from(s, old, new, i + 1)

\* s.replace(old, new) for a non-empty old: leftmost non-overlapping occurrences
replace(s, old, new) == replace_from(s, old, new, 1)

\* all texts made of at most n pieces
RECURSIVE Texts(_, _)
Texts(pieces, n) ==
    IF n = 0 THEN {<<>>}
    ELSE LET T == Texts(pieces, n - 1)
         IN  T \cup {t \o p : t \in T, p \in pieces}

-----------------------------------------------------------------------------
(* generate_sop: the completion's text with <think> blocks removed.        *)

THINK_OPEN == <<"<","t","h","i","n","k",">">>
THINK_CLOSE == <<"<","/","t","h","i","n","k",">">>

\* (variant) `.` without re.DOTALL: the search stops at a newline
RECURSIVE find_close_no_dotall(_, _)
find_close_no_dotall(s, i) ==
    IF i > Len(s) THEN 0
    ELSE IF StartsAt(s, i, THINK_CLOSE) THEN i
    ELSE IF s[i] = "\n" THEN 0
    ELSE find_close_no_dotall(s, i + 1)

\* smallest index >= i at which the closing tag starts, 0 when there is none
RECURSIVE find_close(_, _)
find_close(s, i) ==
    IF i > Len(s) THEN 0
    ELSE IF StartsAt(s, i, THINK_CLOSE) THEN i
    ELSE find_close(s, i + 1)

\* index of the last character of the match of <think>.*?</think> that starts
\* at i (re.DOTALL: `.` matches newlines too; `*?`: the first closing tag), 0
\* when the pattern does not match at i
match_end(s, i) ==
    IF ~StartsAt(s, i, THINK_OPEN) THEN 0
    ELSE LET j == find_close(s, i + Len(THINK_OPEN))
         IN  IF j = 0 THEN 0 ELSE j + Len(THINK_CLOSE) - 1

RECURSIVE re_sub_from(_, _)
re_sub_from(s, i) ==
    IF i > Len(s) THEN <<>>
    ELSE LET m == match_end(s, i)
         IN  IF m # 0 THEN re_sub_from(s, m + 1)
             ELSE <<s[i]>> \o re_sub_from(s, i + 1)

\* re.sub(r"<think>.*?</think>", "", s, flags=re.DOTALL)
re_sub_think(s) == re_sub_from(s, 1)

\* generate_sop on a completion whose message content is `content`
generate_sop(content) == strip(re_sub_think(content))

-----------------------------------------------------------------------------
(* replace_placeholders.                                                   *)

\* the keys of field_values, in the dict's insertion order (generate_doc)
KEYS == << <<"T","I","T","L","E">>, <<"C","O","D","E">>, <<"C","H","E","C","K","L","I","S","T",".","N","O">>, <<"R","E","V">>, <<"D","A","T","E">>,
           <<"P","O","S","I","T","I","O","N">>, <<"A","C","T","I","O","N","S">> >>

\* f"{{{{{key}}}}}"
placeholder(key) == <<"{","{">> \o key \o <<"}","}">>

\* the loop of replace_placeholders from item i on; items is field_values.items(),
\* a sequence of <<key, value>> pairs
RECURSIVE replace_loop(_, _, _)
replace_loop(txt, items, i) ==
    IF i > Len(items) THEN txt
    ELSE LET key   == items[i][1]
             value == items[i][2]
         IN  replace_loop(IF strip(value) # <<>>
                          THEN replace(txt, placeholder(key), value)
                          ELSE replace(txt, placeholder(key), <<>>),
                          items, i + 1)

replace_placeholders(txt, items) == replace_loop(txt, items, 1)

-----------------------------------------------------------------------------
(* Documents (python-docx), process_document and adjust_font.              *)
(*                                                                         *)
(* A paragraph is its sequence of runs, a run a record [text, size].  A    *)
(* table holds its cell elements once (cells) and, per row, the cell found *)
(* at each column of the layout grid (rows): python-docx's row.cells has   *)
(* one entry per grid column, so a merged cell is listed once for every    *)
(* column (or row) it spans.                                               *)

\* run.font.size of a run that sets no size of its own (None)
NoSize == 0

\* Pt(8), the size generate_doc passes to adjust_font
FONT_SIZE == 8

RECURSIVE concat_runs(_)
concat_runs(runs) ==
    IF runs = <<>> THEN <<>> ELSE Head(runs).text \o concat_runs(Tail(runs))

\* paragraph.text (getter): the run texts, concatenated
paragraph_text(p) == concat_runs(p)

\* paragraph.text = t (setter): every run is removed and one run holding t added
set_paragraph_text(p, t) == << [text |-> t, size |-> NoSize] >>

\* lines 99-101: a top-level paragraph is rewritten when some placeholder occurs
process_top_paragraph(p, items) ==
    IF \E i \in 1..Len(items) : Contains(paragraph_text(p), placeholder(items[i][1]))
    THEN set_paragraph_text(p, replace_placeholders(paragraph_text(p), items))
    ELSE p

\* lines 106-107: a cell paragraph is always rewritten
process_cell_paragraph(p, items) ==
    set_paragraph_text(p, replace_placeholders(paragraph_text(p), items))

process_cell(cell, items) ==
    [k \in 1..Len(cell) |-> process_cell_paragraph(cell[k], items)]

\* row.cells of every row in turn: the cell indexes in the order lines 104-105
\* visit them
RECURSIVE visits(_)
visits(rows) == IF rows = <<>> THEN <<>> ELSE Head(rows) \o visits(Tail(rows))

\* lines 104-107 on one table: each visit rewrites the visited cell in place
RECURSIVE process_cells(_, _, _)
process_cells(cells, order, items) ==
    IF order = <<>> THEN cells
    ELSE process_cells([cells EXCEPT ![Head(order)] = process_cell(@, items)],
                       Tail(order), items)

process_table(t, items) ==
    [t EXCEPT !.cells = process_cells(t.cells, visits(t.rows), items)]

process_document(d, items) ==
    [paragraphs |-> [k \in 1..Len(d.paragraphs) |->
                        process_top_paragraph(d.paragraphs[k], items)],
     tables     |-> [k \in 1..Len(d.tables) |-> process_table(d.tables[k], items)]]

set_size(p, size) == [k \in 1..Len(p) |-> [p[k] EXCEPT !.size = size]]

\* a cell element not listed in any row is not reached by `for cell in row.cells`
adjust_table(t, size) ==
    [t EXCEPT !.cells =
        [c \in 1..Len(t.cells) |->
            IF \E r \in 1..Len(t.rows) : \E g \in 1..Len(t.rows[r]) : t.rows[r][g] = c
            THEN [k \in 1..Len(t.cells[c]) |-> set_size(t.cells[c][k], size)]
            ELSE t.cells[c]]]

adjust_font(d, size) ==
    [paragraphs |-> [k \in 1..Len(d.paragraphs) |-> set_size(d.paragraphs[k], size)],
     tables     |-> [k \in 1..Len(d.tables) |-> adjust_table(d.tables[k], size)]]

-----------------------------------------------------------------------------
(* datetime.datetime.strptime(date, "%d %B %Y").                           *)

DIGITS == <<"0","1","2","3","4","5","6","7","8","9">>
LOWER == <<"a","b","c","d","e","f","g","h","i","j","k","l","m","n","o","p","q","r","s","t","u","v","w","x","y","z">>
UPPER == <<"A","B","C","D","E","F","G","H","I","J","K","L","M","N","O","P","Q","R","S","T","U","V","W","X","Y","Z">>

IsDigit(c) == \E k \in 1..Len(DIGITS) : DIGITS[k] = c
DigitVal(c) == (CHOOSE k \in 1..Len(DIGITS) : DIGITS[k] = c) - 1

\* the pattern is compiled with re.IGNORECASE
upper_char(c) ==
    IF \E k \in 1..Len(LOWER) : LOWER[k] = c
    THEN UPPER[CHOOSE k \in 1..Len(LOWER) : LOWER[k] = c]
    ELSE c
upper(s) == [k \in 1..Len(s) |-> upper_char(s[k])]

\* calendar.month_name[1:], C locale
MONTHS == << <<"J","A","N","U","A","R","Y">>, <<"F","E","B","R","U","A","R","Y">>, <<"M","A","R","C","H">>, <<"A","P","R","I","L">>, <<"M","A","Y">>, <<"J","U","N","E">>,
             <<"J","U","L","Y">>, <<"A","U","G","U","S","T">>, <<"S","E","P","T","E","M","B","E","R">>, <<"O","C","T","O","B","E","R">>, <<"N","O","V","E","M","B","E","R">>,
             <<"D","E","C","E","M","B","E","R">> >>

is_leap(y) == (y % 4 = 0) /\ ((y % 100 # 0) \/ (y % 400 = 0))

days_in_month(y, m) ==
    IF m = 2 THEN (IF is_leap(y) THEN 29 ELSE 28)
    ELSE IF m \in {4, 6, 9, 11} THEN 30 ELSE 31

\* %d: 3[0-1]|[1-2]\d|0[1-9]|[1-9]| [1-9]; the day matched, 0 when d is none
day_value(d) ==
    IF Len(d) = 1 /\ IsDigit(d[1]) /\ d[1] # "0" THEN DigitVal(d[1])
    ELSE IF Len(d) = 2 /\ d[1] = " " /\ IsDigit(d[2]) /\ d[2] # "0"
         THEN DigitVal(d[2])
    ELSE IF Len(d) = 2 /\ IsDigit(d[1]) /\ IsDigit(d[2])
            /\ 10 * DigitVal(d[1]) + DigitVal(d[2]) \in 1..31
         THEN 10 * DigitVal(d[1]) + DigitVal(d[2])
    ELSE 0

\* %B: the month named, 0 when b is no month name
month_value(b) ==
    IF \E m \in 1..Len(MONTHS) : MONTHS[m] = upper(b)
    THEN CHOOSE m \in 1..Len(MONTHS) : MONTHS[m] = upper(b)
    ELSE 0

\* %Y: \d\d\d\d; the year, -1 when y is not four digits
year_value(y) ==
    IF Len(y) = 4 /\ \A k \in 1..4 : IsDigit(y[k])
    THEN 1000 * DigitVal(y[1]) + 100 * DigitVal(y[2]) + 10 * DigitVal(y[3])
         + DigitVal(y[4])
    ELSE -1

\* strptime returns (no ValueError): the whole string matches
\* <day>\s+<month>\s+<year> and the date exists
strptime_ok(s) ==
    \E a \in 1..Len(s) : \E b \in (a + 1)..Len(s) :
    \E c \in (b + 1)..Len(s) : \E d \in (c + 1)..(Len(s) - 1) :
        LET dv == day_value(SubSeq(s, 1, a))
            mv == month_value(SubSeq(s, b + 1, c))
            yv == year_value(SubSeq(s, d + 1, Len(s)))
        IN  /\ \A k \in (a + 1)..b : IsSpace(s[k])
            /\ \A k \in (c + 1)..d : IsSpace(s[k])
            /\ dv # 0 /\ mv # 0 /\ yv >= 1
            /\ dv <= days_in_month(yv, mv)

-----------------------------------------------------------------------------
(* The page.  Every action is one run of the script, started by one user   *)
(* interaction; session_state is what the run leaves in st.session_state,  *)
(* view what it rendered.                                                  *)

\* datetime.now().strftime("%d %B %Y").upper() on the day the session starts
TODAY == <<"0","2"," ","M","A","R","C","H"," ","2","0","2","5">>

\* An optional value is a sequence of length 0 or 1.
NoDoc == <<>>           \* 'doc_bytes' not in st.session_state
NoExpander == <<>>      \* the run rendered no "SOP Suggestion" expander
NoDownload == <<>>      \* the run rendered no download button

FIELDS == <<"title", "code", "checklist_no", "revision", "date", "position",
            "actions_text">>

\* what the user may type into each input
TitleVals == {<<>>, <<" ">>, <<"T">>}
CodeVals == {<<>>, <<"C">>}
ChecklistVals == {<<>>, <<"1">>}
RevisionVals == {<<>>, <<"R">>}
DateVals == {<<>>, TODAY, <<"2","0","2","5","-","0","3","-","0","2">>}
PositionVals == {<<>>, <<"P">>}
ActionsVals == {<<>>, <<"a">>}

InputVals(f) ==
    CASE f = "title"        -> TitleVals
      [] f = "code"         -> CodeVals
      [] f = "checklist_no" -> ChecklistVals
      [] f = "revision"     -> RevisionVals
      [] f = "date"         -> DateVals
      [] f = "position"     -> PositionVals
      [] f = "actions_text" -> ActionsVals

\* message contents the completion service may return
Completions == {<<"<","t","h","i","n","k",">","x","\n","y","<","/","t","h","i","n","k",">","S","1"," ">>, <<"S","2">>, <<"<","t","h","i","n","k",">","x","<","/","t","h","i","n","k",">">>}

\* assets/TEMPLATE.docx as loaded: a date paragraph and a table with one cell
\* holding a title paragraph (its token split over two runs) and an actions
\* paragraph
TEMPLATE ==
    [paragraphs |-> << << [text |-> <<"D","a","t","e",":"," ","{","{","D","A","T","E","}","}">>, size |-> NoSize] >> >>,
     tables     |-> << [cells |-> << << << [text |-> <<"{","{","T","I","T">>, size |-> 12],
                                           [text |-> <<"L","E","}","}">>, size |-> NoSize] >>,
                                        << [text |-> <<"{","{","A","C","T","I","O","N","S","}","}">>, size |-> NoSize] >>
                                     >> >>,
                        rows  |-> << <<1>> >>] >>]

\* lines 130-148
SessionDefaults ==
    [title |-> <<>>, code |-> <<>>, checklist_no |-> <<>>, revision |-> <<>>,
     date |-> TODAY, position |-> <<>>, actions_text |-> <<>>,
     sop_suggestion |-> <<>>, expanded |-> TRUE,
     doc_bytes |-> NoDoc, doc_filename |-> NoDoc]

\* lines 172-174: the expander a run renders once it gets that far; ss is the
\* session state at that point of the run
expander(ss) ==
    IF ss.sop_suggestion # <<>>
    THEN << [text |-> ss.sop_suggestion, expanded |-> ss.expanded] >>
    ELSE NoExpander

\* a run that presses nothing and raises nothing
blank_view(ss) ==
    [action |-> "edit", errors |-> <<>>, toast |-> "", expander |-> expander(ss),
     download |-> NoDownload, suggest_called |-> FALSE, render_called |-> FALSE]

\* lines 205-213
make_field_values(ss) ==
    << <<KEYS[1], ss.title>>, <<KEYS[2], ss.code>>, <<KEYS[3], ss.checklist_no>>,
       <<KEYS[4], ss.revision>>, <<KEYS[5], ss.date>>, <<KEYS[6], ss.position>>,
       <<KEYS[7], ss.actions_text>> >>

\* (variant) the emptiness test without .strip()
missing_fields_untrimmed(ss) ==
    LET is_missing(f) == ss[f] = <<>>
    IN  SelectSeq(<<"title", "checklist_no", "date", "actions_text">>, is_missing)

\* lines 189-190
REQUIRED == <<"title", "checklist_no", "date", "actions_text">>
missing_fields(ss) ==
    LET is_missing(f) == strip(ss[f]) = <<>> IN SelectSeq(REQUIRED, is_missing)

\* lines 214-215: the document that is saved into doc_bytes
render(ss) == adjust_font(process_document(TEMPLATE, make_field_values(ss)), FONT_SIZE)

\* line 216
filename(ss) == ss.checklist_no \o <<" ","-"," ">> \o ss.title \o <<".","d","o","c","x">>

\* generate_doc: the errors it reports.  template_ok is whether loading,
\* processing and saving the template go through without an exception.
generate_doc_errors(ss, template_ok) ==
    IF missing_fields(ss) # <<>>
    THEN << [kind |-> "required", fields |-> missing_fields(ss)] >>
    ELSE IF ~strptime_ok(ss.date)
    THEN << [kind |-> "date_format", fields |-> <<>>] >>
    ELSE IF ~template_ok
    THEN << [kind |-> "generating", fields |-> <<>>] >>
    ELSE <<>>

\* generate_doc: the session state it leaves
generate_doc(ss, template_ok) ==
    IF generate_doc_errors(ss, template_ok) # <<>> THEN ss
    ELSE [ss EXCEPT !.doc_bytes = <<render(ss)>>, !.doc_filename = <<filename(ss)>>]

\* lines 227-236: what the handler shows after generate_doc returned
download_button(ss) ==
    IF ss.doc_bytes # NoDoc
    THEN << [data |-> ss.doc_bytes[1], file_name |-> ss.doc_filename[1]] >>
    ELSE NoDownload

\* lines 167-168: the session state after a completion came back
store_suggestion(ss, content) == [ss EXCEPT !.sop_suggestion = generate_sop(content)]

\* (variant) a failed call drops the suggestion stored before
suggestion_failed_clears(ss) == [ss EXCEPT !.sop_suggestion = <<>>]

\* lines 169-171: the session state after the call raised
suggestion_failed(ss) == ss

\* (variant) the suggestion is appended to the actions instead of replacing them
accept_merges(ss) ==
    [ss EXCEPT !.actions_text = ss.actions_text \o ss.sop_suggestion,
               !.expanded = FALSE]

\* lines 177-179
accept(ss) == [ss EXCEPT !.actions_text = ss.sop_suggestion, !.expanded = FALSE]

\* (variant) declining discards the stored suggestion
decline_discards(ss) == [ss EXCEPT !.sop_suggestion = <<>>, !.expanded = FALSE]

\* line 183
decline(ss) == [ss EXCEPT !.expanded = FALSE]

Idle ==
    /\ text = <<>>
    /\ field_values = <<>>
    /\ doc = [paragraphs |-> <<>>, tables |-> <<>>]
    /\ ret = <<>>
    /\ pc = "page"

Init ==
    /\ session_state = SessionDefaults
    /\ view = blank_view(SessionDefaults)
    /\ Idle

\* the user edits one input; the script reruns with no button pressed
EditField ==
    /\ \E f \in {FIELDS[k] : k \in 1..Len(FIELDS)} : \E v \in InputVals(f) :
          session_state' = [session_state EXCEPT ![f] = v]
    /\ view' = blank_view(session_state')
    /\ UNCHANGED <<text, field_values, doc, ret, pc>>

\* "Get Help From AI" with a blank title (lines 162-163); the run goes on
GetHelpNoTitle ==
    /\ strip(session_state.title) = <<>>
    /\ session_state' = session_state
    /\ view' = [blank_view(session_state) EXCEPT
                    !.action = "get_help",
                    !.errors = << [kind |-> "title", fields |-> <<>>] >>]
    /\ UNCHANGED <<text, field_values, doc, ret, pc>>

\* "Get Help From AI", the call raises (lines 169-171): st.stop() ends the run,
\* so nothing below line 171 is rendered
GetHelpFails ==
    /\ strip(session_state.title) # <<>>
    /\ session_state' = suggestion_failed(session_state)
    /\ view' = [blank_view(session_state') EXCEPT
                    !.action = "get_help",
                    !.errors = << [kind |-> "api", fields |-> <<>>] >>,
                    !.expander = NoExpander,
                    !.suggest_called = TRUE]
    /\ UNCHANGED <<text, field_values, doc, ret, pc>>

\* "Get Help From AI", the call returns (lines 167-168, then 172-174)
GetHelpSucceeds ==
    /\ strip(session_state.title) # <<>>
    /\ \E content \in Completions :
          session_state' = store_suggestion(session_state, content)
    /\ view' = [blank_view(session_state') EXCEPT
                    !.action = "get_help",
                    !.suggest_called = TRUE]
    /\ UNCHANGED <<text, field_values, doc, ret, pc>>

\* "Accept" (lines 176-180): the button exists only in a rendered expander;
\* st.rerun() starts a fresh run, which renders the page again
Accept ==
    /\ view.expander # NoExpander
    /\ session_state' = accept(session_state)
    /\ view' = [blank_view(session_state') EXCEPT
                    !.action = "accept", !.toast = "SOP updated from suggestion."]
    /\ UNCHANGED <<text, field_values, doc, ret, pc>>

\* "Decline" (lines 181-183): the expander of this run was rendered at line 173,
\* before the flag is cleared
Decline ==
    /\ view.expander # NoExpander
    /\ session_state' = decline(session_state)
    /\ view' = [blank_view(session_state) EXCEPT
                    !.action = "decline", !.toast = "SOP suggestion declined."]
    /\ UNCHANGED <<text, field_values, doc, ret, pc>>

\* "Generate SOP" (lines 225-236)
GenerateSOP ==
    \E template_ok \in BOOLEAN :
        LET errs  == generate_doc_errors(session_state, template_ok)
            after == generate_doc(session_state, template_ok)
            shown == download_button(after)
        IN  /\ session_state' = after
            /\ view' = [blank_view(after) EXCEPT
                   !.action = "generate",
                   !.errors = IF shown = NoDownload
                              THEN errs \o << [kind |-> "failed", fields |-> <<>>] >>
                              ELSE errs,
                   !.download = shown,
                   !.render_called =
                        (errs = <<>> \/ errs[1].kind = "generating")]
            /\ UNCHANGED <<text, field_values, doc, ret, pc>>

Next ==
    \/ EditField
    \/ GetHelpNoTitle
    \/ GetHelpFails
    \/ GetHelpSucceeds
    \/ Accept
    \/ Decline
    \/ GenerateSOP

Spec == Init /\ [][Next]_vars

-----------------------------------------------------------------------------
(* The functions on their own, on bounded inputs.                          *)

PageIdle ==
    /\ session_state = SessionDefaults
    /\ view = blank_view(SessionDefaults)

NoDocument == [paragraphs |-> <<>>, tables |-> <<>>]

\* every dict over KEYS in which at most MaxFilled of the keys `among` carry a
\* value of `values` and every other key the empty string
FieldDicts(among, values) ==
    UNION {{[k \in 1..Len(KEYS) |-> <<KEYS[k], IF k \in S THEN f[k] ELSE <<>> >>] :
               f \in [S -> values]} :
           S \in {X \in SUBSET among : Cardinality(X) <= MaxFilled}}

\* replace_placeholders -----------------------------------------------------

ReplacePieces == {<<"{","{","T","I","T","L","E","}","}">>, <<"{","{","C","O","D","E","}","}">>, <<"{","{","A","C","T","I","O","N","S","}","}">>, <<"x">>, <<"{","{">>, <<"}","}">>}
ReplaceValues == {<<" ">>, <<"v">>, <<" ","v"," ">>, <<"{","{","T","I","T","L","E","}","}">>, <<"{","{","A","C","T","I","O","N","S","}","}">>}

InitReplace ==
    /\ PageIdle
    /\ text \in Texts(ReplacePieces, MaxPieces)
    /\ field_values \in FieldDicts(1..Len(KEYS), ReplaceValues)
    /\ doc = NoDocument
    /\ ret = <<>>
    /\ pc = "start"

CallReplacePlaceholders ==
    /\ pc = "start"
    /\ ret' = replace_placeholders(text, field_values)
    /\ pc' = "done"
    /\ UNCHANGED <<session_state, view, text, field_values, doc>>

SpecReplace == InitReplace /\ [][CallReplacePlaceholders]_vars

\* generate_sop -------------------------------------------------------------

ThinkPieces == {THINK_OPEN, THINK_CLOSE, <<"a">>, <<" ">>, <<"\n">>, <<"<","t","h","i">>, <<"n","k",">">>}
EXAMPLE_COMPLETION == <<"S","t","e","p"," ","1",":"," ","d","o"," ","X","<","t","h","i","n","k",">","i","n","t","e","r","n","a","l"," ","r","e","a","s","o","n","i","n","g","<","/","t","h","i","n","k",">","S","t","e","p"," ","2",":"," ","d","o"," ","Y">>
EXAMPLE_SUGGESTION == <<"S","t","e","p"," ","1",":"," ","d","o"," ","X","S","t","e","p"," ","2",":"," ","d","o"," ","Y">>

InitStrip ==
    /\ PageIdle
    /\ text \in Texts(ThinkPieces, MaxThinkPieces) \cup {EXAMPLE_COMPLETION}
    /\ field_values = <<>>
    /\ doc = NoDocument
    /\ ret = <<>>
    /\ pc = "start"

CallGenerateSop ==
    /\ pc = "start"
    /\ ret' = generate_sop(text)
    /\ pc' = "done"
    /\ UNCHANGED <<session_state, view, text, field_values, doc>>

SpecStrip == InitStrip /\ [][CallGenerateSop]_vars

\* process_document, adjust_font --------------------------------------------

RunPieces == {<<"{","{","T","I","T">>, <<"L","E","}","}">>, <<"{","{","A","C","T","I","O","N","S","}","}">>}
DocValues == {<<" ">>, <<"v">>, <<"{","{","T","I","T","L","E","}","}">>}
\* the keys whose values vary: TITLE, CODE, ACTIONS
DocKeys == {1, 2, 7}

RECURSIVE Paragraphs(_)
Paragraphs(n) ==
    IF n = 0 THEN {<<>>}
    ELSE LET P == Paragraphs(n - 1)
         IN  P \cup {Append(p, [text |-> r, size |-> NoSize]) : p \in P, r \in RunPieces}

\* row.cells of the rows of a table of one or two cell elements: a single
\* cell, a cell spanning two columns, a cell spanning two rows, two cells
Layouts == { << <<1>> >>, << <<1, 1>> >>, << <<1>>, <<1>> >>, << <<1, 2>> >> }

Documents ==
    {[paragraphs |-> <<p>>,
      tables |-> << [cells |-> << <<q>>, <<q, p>> >>, rows |-> l] >>] :
        p \in Paragraphs(MaxRuns), q \in Paragraphs(MaxRuns), l \in Layouts}

InitDoc ==
    /\ PageIdle
    /\ text = <<>>
    /\ field_values \in FieldDicts(DocKeys, DocValues)
    /\ doc \in Documents
    /\ ret = NoDocument
    /\ pc = "start"

CallProcessDocument ==
    /\ pc = "start"
    /\ ret' = process_document(doc, field_values)
    /\ pc' = "done"
    /\ UNCHANGED <<session_state, view, text, field_values, doc>>

CallAdjustFont ==
    /\ pc = "done"
    /\ ret' = adjust_font(ret, FONT_SIZE)
    /\ pc' = "sized"
    /\ UNCHANGED <<session_state, view, text, field_values, doc>>

NextDoc == CallProcessDocument \/ CallAdjustFont

SpecDoc == InitDoc /\ [][NextDoc]_vars

-----------------------------------------------------------------------------
(* Properties of the page (checked under Spec).                            *)

FieldNames == {FIELDS[k] : k \in 1..Len(FIELDS)}
RequiredNames == {"title", "checklist_no", "date", "actions_text"}
Blank(s) == \A k \in 1..Len(s) : s[k] \in {" ", "\t", "\n", "\r"}

\* the last run was a "Generate SOP" in which generate_doc reported an error
GenerateFailed == view.action = "generate" /\ view.errors # <<>>
\* the last run was a "Get Help From AI" whose call returned
HelpSucceeded ==
    view.action = "get_help" /\ view.suggest_called /\ view.errors = <<>>

\* C1: a "Generate SOP" run that fails (a required field missing, a date that
\* does not parse, an exception while rendering) offers no document for
\* download, whatever the earlier runs of the session left behind.
C1_FailedGenerateOffersNoDownload == GenerateFailed => view.download = NoDownload

\* C2: after every "Get Help From AI" whose call returned, the suggestion shown
\* is the stored one and it is shown expanded (the expander is rendered with
\* expanded = TRUE), whatever was pressed before.
C2_NewSuggestionShownExpanded ==
    (HelpSucceeded /\ session_state.sop_suggestion # <<>>) =>
        /\ view.expander # NoExpander
        /\ view.expander[1].text = session_state.sop_suggestion
        /\ view.expander[1].expanded

\* C3: "Accept" sets actions_text to exactly the stored suggestion, whatever it
\* held before, clears the expansion flag and changes nothing else.
C3_AcceptOverwritesActions ==
    [][view'.action = "accept" =>
          /\ session_state'.actions_text = session_state.sop_suggestion
          /\ session_state'.expanded = FALSE
          /\ \A f \in (DOMAIN session_state) \ {"actions_text", "expanded"} :
                session_state'[f] = session_state[f]]_vars

C3_Witness ==
    /\ view.action = "accept"
    /\ session_state.sop_suggestion # <<>>
    /\ session_state.actions_text = session_state.sop_suggestion
    /\ session_state.code # <<>>
    /\ ~session_state.expanded

C5_FailedHelpChangesNothing ==
    [][view'.action = "get_help" =>
          /\ view'.errors # <<>> => session_state' = session_state
          /\ Blank(session_state.title) =>
                /\ ~view'.suggest_called
                /\ view'.errors # <<>>
          /\ (~Blank(session_state.title)) => view'.suggest_called]_vars

C5_Witness ==
    /\ view.action = "get_help"
    /\ view.errors # <<>>
    /\ view.suggest_called
    /\ session_state.sop_suggestion # <<>>

\* C6: when "Generate SOP" finds a required field blank, one message names
\* exactly the blank required fields, each once and never an optional field,
\* the renderer is not invoked and no field changes.
C6_MissingFieldsReportedExactly ==
    [][(/\ view'.action = "generate"
        /\ \E f \in RequiredNames : Blank(session_state[f])) =>
          LET msgs == {k \in 1..Len(view'.errors) : view'.errors[k].kind = "required"}
              named == view'.errors[CHOOSE k \in msgs : TRUE].fields
          IN  /\ Cardinality(msgs) = 1
              /\ {named[k] : k \in 1..Len(named)}
                    = {f \in RequiredNames : Blank(session_state[f])}
              /\ Len(named) = Cardinality({named[k] : k \in 1..Len(named)})
              /\ ~view'.render_called
              /\ \A f \in FieldNames : session_state'[f] = session_state[f]]_vars

C6_Witness ==
    /\ view.action = "generate"
    /\ view.errors # <<>>
    /\ view.errors[1].kind = "required"
    /\ view.errors[1].fields = <<"checklist_no">>
    /\ session_state.code = <<>>
    /\ session_state.revision = <<>>
    /\ session_state.position = <<>>
    /\ ~view.render_called

-----------------------------------------------------------------------------
(* Properties of replace_placeholders (checked under SpecReplace).         *)

ValueOf(items, k) == items[k][2]
\* what a token of key k is to be replaced with: nothing for a blank value,
\* the raw value otherwise
Replacement(items, k) == IF Blank(ValueOf(items, k)) THEN <<>> ELSE ValueOf(items, k)

\* the text with every placeholder token it contains replaced, in one pass from
\* left to right, the text put in never being looked at again
RECURSIVE SubstitutedFrom(_, _, _)
SubstitutedFrom(s, items, i) ==
    IF i > Len(s) THEN <<>>
    ELSE LET hits == {k \in 1..Len(items) : StartsAt(s, i, placeholder(items[k][1]))}
         IN  IF hits = {} THEN <<s[i]>> \o SubstitutedFrom(s, items, i + 1)
             ELSE LET k == CHOOSE h \in hits : TRUE
                  IN  Replacement(items, k)
                      \o SubstitutedFrom(s, items, i + Len(placeholder(items[k][1])))

Substituted(s, items) == SubstitutedFrom(s, items, 1)

\* C7: no recursive substitution: when the text holds the token of a key whose
\* (non-blank) value itself contains the token of another key, that inner
\* token is in the output verbatim.
C7_ValueIsNotRescanned ==
    pc = "done" =>
        \A k1 \in 1..Len(field_values) : \A k2 \in 1..Len(field_values) :
            (/\ k1 # k2
             /\ Contains(text, placeholder(field_values[k1][1]))
             /\ ~Blank(ValueOf(field_values, k1))
             /\ Contains(ValueOf(field_values, k1), placeholder(field_values[k2][1])))
            => Contains(ret, placeholder(field_values[k2][1]))

\* C8: the result is the text with every occurrence of every key's token
\* replaced, by nothing when the key's value is blank and by the raw value
\* otherwise; a text holding no token is returned as it is.
C8_EveryTokenReplacedByItsValue ==
    pc = "done" =>
        /\ ret = Substituted(text, field_values)
        /\ (\A k \in 1..Len(field_values) :
                ~Contains(text, placeholder(field_values[k][1]))) => ret = text

\* The two agree on every input in which no value holds a brace and no token
\* is completed by a replacement (kept as a cross-check of C8's reading).
NoBraces(s) == \A k \in 1..Len(s) : s[k] \notin {"{", "}"}
ReplaceAgreesWithoutBraces ==
    (/\ pc = "done"
     /\ \A k \in 1..Len(field_values) : NoBraces(ValueOf(field_values, k)))
    => ret = Substituted(text, field_values)

-----------------------------------------------------------------------------
(* Properties of generate_sop (checked under SpecStrip).                   *)

\* index of the last character of the shortest <think>...</think> block that
\* starts at i, 0 when none starts there
BlockEnd(s, i) ==
    LET closes == {j \in (i + Len(THINK_OPEN))..Len(s) : StartsAt(s, j, THINK_CLOSE)}
    IN  IF StartsAt(s, i, THINK_OPEN) /\ closes # {}
        THEN (CHOOSE j \in closes : \A j2 \in closes : j <= j2) + Len(THINK_CLOSE) - 1
        ELSE 0

\* the positions of s inside a block, blocks taken from the left and not
\* overlapping
InBlock(s) ==
    LET taken[i \in 0..Len(s)] ==
            IF i = 0 THEN FALSE
            ELSE /\ BlockEnd(s, i) # 0
                 /\ \A k \in 1..(i - 1) : taken[k] => BlockEnd(s, k) < i
    IN  {p \in 1..Len(s) : \E i \in 1..p : taken[i] /\ p <= BlockEnd(s, i)}

RECURSIVE Keep(_, _, _)
Keep(s, drop, i) ==
    IF i > Len(s) THEN <<>>
    ELSE (IF i \in drop THEN <<>> ELSE <<s[i]>>) \o Keep(s, drop, i + 1)

\* r is t without its leading and trailing whitespace
IsTrimOf(r, t) ==
    \E a \in 0..Len(t) : \E b \in a..Len(t) :
        /\ r = SubSeq(t, a + 1, b)
        /\ \A k \in 1..a : t[k] \in {" ", "\t", "\n", "\r"}
        /\ \A k \in (b + 1)..Len(t) : t[k] \in {" ", "\t", "\n", "\r"}
        /\ r # <<>> => (r[1] \notin {" ", "\t", "\n", "\r"}
                        /\ r[Len(r)] \notin {" ", "\t", "\n", "\r"})

\* C9: generate_sop returns the completion without its <think>...</think>
\* blocks (each the shortest one, newlines inside included), the text outside
\* the blocks kept in order, whitespace trimmed at both ends; the completion
\* "Step 1: do X<think>internal reasoning</think>Step 2: do Y" gives
\* "Step 1: do XStep 2: do Y".
C9_ThinkBlocksStripped ==
    pc = "done" =>
        /\ IsTrimOf(ret, Keep(text, InBlock(text), 1))
        /\ text = EXAMPLE_COMPLETION => ret = EXAMPLE_SUGGESTION

C9_Witness ==
    /\ pc = "done"
    /\ text = THINK_OPEN \o <<"\n">> \o THINK_CLOSE \o <<"a">>
    /\ ret = <<"a">>

-----------------------------------------------------------------------------
(* Properties of process_document (checked under SpecDoc).                 *)

\* the cells row.cells reaches in table t
Listed(t) == UNION {{t.rows[r][g] : g \in 1..Len(t.rows[r])} : r \in 1..Len(t.rows)}

\* C10: after process_document every top-level paragraph and every paragraph
\* of every cell of every table shows replace_placeholders of the joined text
\* of its original runs.
C10_ParagraphsShowSubstitutedText ==
    pc \in {"done", "sized"} =>
        /\ \A k \in 1..Len(doc.paragraphs) :
              paragraph_text(ret.paragraphs[k])
                 = replace_placeholders(paragraph_text(doc.paragraphs[k]), field_values)
        /\ \A t \in 1..Len(doc.tables) : \A c \in Listed(doc.tables[t]) :
           \A k \in 1..Len(doc.tables[t].cells[c]) :
              paragraph_text(ret.tables[t].cells[c][k])
                 = replace_placeholders(paragraph_text(doc.tables[t].cells[c][k]),
                                        field_values)

\* The same holds of every document in which no cell is listed twice (kept as
\* a cross-check that the merged cells are what breaks C10).
NoCellListedTwice(t) ==
    \A r1 \in 1..Len(t.rows), r2 \in 1..Len(t.rows) :
    \A g1 \in 1..Len(t.rows[r1]), g2 \in 1..Len(t.rows[r2]) :
        t.rows[r1][g1] = t.rows[r2][g2] => (r1 = r2 /\ g1 = g2)
SubstitutedWithoutMergedCells ==
    (\A t \in 1..Len(doc.tables) : NoCellListedTwice(doc.tables[t]))
    => C10_ParagraphsShowSubstitutedText

=============================================================================
